---- MODULE Spec2Model ----
(***************************************************************************)
(* Label normalisation and metrics engine of the TESA dashboard:           *)
(*   utils/labelMapping.ts   (conversion primitives)                       *)
(*   services/metrics.ts     (confusion matrix, precision/recall/F1)       *)
(*   context/SettingsContext (the active label mapping)                    *)
(*   context/AnalysisContext (the record store and its operations)         *)
(*   pages/SettingsPage      (handleMappingClick)                          *)
(*   services/csvUtils.ts    (parseInputCsv, parseValidationCsv)           *)
(*   pages/ResultsPage       (handleDownloadFinalCsv)                      *)
(*                                                                         *)
(* Labels are 0, 1, 2 or Absent (undefined).  The numbers of the metrics   *)
(* are exact fractions.  runAnalysis is split at its await of the backend; *)
(* loadCsvFile and applyValidationFile take the parsed file as their input *)
(* and are one step each.  Spec draws the inputs as parsed rows; SpecCsv   *)
(* draws CSV files, as sequences of characters, and parses them.           *)
(***************************************************************************)
EXTENDS Integers, Sequences, FiniteSets, TLC

VARIABLES
    labelMapping,   \* settings.labelMapping : code -> meaning
    rawRows,        \* AnalysisContext.rawRows : parsed input rows
    reviews,        \* AnalysisContext.reviews : the record store
    job,            \* AnalysisContext.job, reduced to its status
    loading,        \* AnalysisContext.loading
    analysis,       \* the runAnalysis call awaiting the backend (its captured rawRows)
    rawDataset,     \* AnalysisContext.rawDataset : file name and size of the loaded file
    filters         \* AnalysisContext.filters : the filters of the results table

vars == <<labelMapping, rawRows, reviews, job, loading, analysis, rawDataset, filters>>

----------------------------------------------------------------------------
(* Values *)

\* an optional label that is undefined / null
Absent == -1

\* an integer that is no label code
BadCode == 3

\* const CODES / classes : LabelCode[] = [0, 1, 2]
classes == <<0, 1, 2>>

CODES == {classes[i] : i \in DOMAIN classes}

MEANING_ORDER == {"negative", "neutral", "positive"}

\* a mapping entry that is undefined
NoMeaning == "undefined"

\* what a caller may pass where a label is expected
LabelInputs == CODES \cup {Absent, BadCode}

OptLabel == CODES \cup {Absent}

----------------------------------------------------------------------------
(* Bounds of the model *)

MaxRows == 2

\* texts are sequences of characters; "x" and "y" are letters, " " is whitespace
Texts == {<<"x">>}

\* the texts of validation files: one of a record and one of no record
ValidationTexts == Texts \cup {<<"y">>}

\* the label cells of input files
InputLabels == {Absent}

\* what a user may set a corrected label to (Absent clears it)
CorrectionInputs == {Absent, 0}

----------------------------------------------------------------------------
(* utils/labelMapping.ts *)

MODEL_MEANING == (0 :> "negative") @@ (1 :> "neutral") @@ (2 :> "positive")

MEANING_TO_INDEX == [m \in MEANING_ORDER |->
    CASE m = "negative" -> 0
      [] m = "neutral"  -> 1
      [] m = "positive" -> 2]

DEFAULT_LABEL_MAPPING == (0 :> "negative") @@ (1 :> "neutral") @@ (2 :> "positive")

\* a ?? b on mapping entries
Coalesce(a, b) == IF a = NoMeaning THEN b ELSE a

\* mutant: the defaults are returned whatever the input holds
normalizeLabelMapping_Defaults(mapping) == DEFAULT_LABEL_MAPPING

\* a key the input lacks reads as undefined; an absent input reads as {}
normalizeLabelMapping(mapping) ==
    [c \in CODES |-> Coalesce(mapping[c], DEFAULT_LABEL_MAPPING[c])]

\* mutant: the dataset code is taken as the concept, the mapping is not consulted
datasetCodeToConceptLabel_Raw(datasetCode, mapping) ==
    IF datasetCode \notin CODES THEN Absent ELSE datasetCode

datasetCodeToConceptLabel(datasetCode, mapping) ==
    IF datasetCode \notin CODES THEN Absent
    ELSE LET meaning == mapping[datasetCode]
         IN  IF meaning \in MEANING_ORDER THEN MEANING_TO_INDEX[meaning] ELSE Absent

\* mutant: a code outside 0..2 becomes neutral
modelCodeToConceptLabel_Neutral(modelCode) ==
    IF modelCode \notin CODES THEN 1 ELSE modelCode

modelCodeToConceptLabel(modelCode) ==
    IF modelCode \notin CODES THEN Absent ELSE modelCode

\* mutant: the concept is returned as the dataset code, the mapping is not consulted
conceptLabelToDatasetCode_Identity(conceptLabel, mapping) == conceptLabel

\* mutant: the last code with the meaning is taken, and code 0 when there is none
conceptLabelToDatasetCode_Last(conceptLabel, mapping) ==
    LET meaning == MODEL_MEANING[conceptLabel]
        hits    == {c \in CODES : mapping[c] = meaning}
    IN  IF hits # {} THEN CHOOSE c \in hits : \A d \in hits : d <= c
        ELSE 0

\* Object.entries(mapping).find(...): integer keys are visited in ascending order
conceptLabelToDatasetCode(conceptLabel, mapping) ==
    LET meaning == MODEL_MEANING[conceptLabel]
        hits    == {c \in CODES : mapping[c] = meaning}
    IN  IF hits # {} THEN CHOOSE c \in hits : \A d \in hits : c <= d
        ELSE conceptLabel

\* mutant: the two integers are compared directly
areLabelsEqualByConcept_Raw(trueLabel, modelOrCorrectedLabel, mapping) ==
    /\ trueLabel \in CODES
    /\ modelOrCorrectedLabel \in CODES
    /\ trueLabel = modelOrCorrectedLabel

areLabelsEqualByConcept(trueLabel, modelOrCorrectedLabel, mapping) ==
    LET trueConcept == datasetCodeToConceptLabel(trueLabel, mapping)
        predConcept == modelCodeToConceptLabel(modelOrCorrectedLabel)
    IN  /\ trueConcept # Absent
        /\ predConcept # Absent
        /\ trueConcept = predConcept

----------------------------------------------------------------------------
(* JavaScript numbers of the metrics, as exact fractions <<numerator,      *)
(* denominator>> in lowest terms; NaN stands for the result of a division  *)
(* by zero (NaN or Infinity), which Number.isFinite rejects.               *)

NaN == <<0, 0>>

RECURSIVE GCD(_, _)
GCD(a, b) == IF b = 0 THEN a ELSE GCD(b, a % b)

Abs(n) == IF n < 0 THEN 0 - n ELSE n

Norm(n, d) ==
    LET g == GCD(Abs(n), Abs(d))
        s == IF d < 0 THEN 0 - 1 ELSE 1
    IN  <<(s * n) \div g, (s * d) \div g>>

Num(n) == <<n, 1>>

isFinite(x) == x # NaN

NumAdd(x, y) ==
    IF x = NaN \/ y = NaN THEN NaN
    ELSE Norm(x[1] * y[2] + y[1] * x[2], x[2] * y[2])

NumMul(x, y) ==
    IF x = NaN \/ y = NaN THEN NaN
    ELSE Norm(x[1] * y[1], x[2] * y[2])

NumDiv(x, y) ==
    IF x = NaN \/ y = NaN \/ y[1] = 0 THEN NaN
    ELSE Norm(x[1] * y[2], x[2] * y[1])

NumPositive(x) == x # NaN /\ x[1] > 0

----------------------------------------------------------------------------
(* services/metrics.ts *)

ZeroCounts == [c \in CODES |-> 0]

ZeroConfusion == [t \in CODES |-> [p \in CODES |-> 0]]

\* the state of the reviews.forEach loop before the first record
TallyInit == [confusion |-> ZeroConfusion, tp |-> ZeroCounts,
              fp |-> ZeroCounts, fn |-> ZeroCounts]

\* mutant: the metrics use the effective label (corrected ?? predicted)
metricsPredLabel_Effective(r) ==
    IF r.correctedLabel # Absent THEN r.correctedLabel ELSE r.predictedLabel

\* which label of a record the metrics take as the prediction
metricsPredLabel(r) == r.predictedLabel

\* mutant: a hit is decided on the raw integers instead of the concepts
TallyStep_RawHit(acc, r, mapping) ==
    LET trueConcept == datasetCodeToConceptLabel(r.trueLabel, mapping)
        predConcept == modelCodeToConceptLabel(metricsPredLabel(r))
    IN  IF trueConcept = Absent \/ predConcept = Absent THEN acc
        ELSE LET conf == [acc.confusion EXCEPT ![trueConcept][predConcept] = @ + 1]
             IN  IF r.trueLabel = r.predictedLabel
                 THEN [acc EXCEPT !.confusion = conf, !.tp[predConcept] = @ + 1]
                 ELSE [acc EXCEPT !.confusion = conf,
                                  !.fn[trueConcept] = @ + 1,
                                  !.fp[predConcept] = @ + 1]

\* one iteration of reviews.forEach
TallyStep(acc, r, mapping) ==
    LET trueConcept == datasetCodeToConceptLabel(r.trueLabel, mapping)
        predConcept == modelCodeToConceptLabel(metricsPredLabel(r))
    IN  IF trueConcept = Absent \/ predConcept = Absent THEN acc
        ELSE LET conf == [acc.confusion EXCEPT ![trueConcept][predConcept] = @ + 1]
             IN  IF trueConcept = predConcept
                 THEN [acc EXCEPT !.confusion = conf, !.tp[trueConcept] = @ + 1]
                 ELSE [acc EXCEPT !.confusion = conf,
                                  !.fn[trueConcept] = @ + 1,
                                  !.fp[predConcept] = @ + 1]

RECURSIVE Tally(_, _, _)
Tally(acc, rows, mapping) ==
    IF rows = <<>> THEN acc
    ELSE Tally(TallyStep(acc, Head(rows), mapping), Tail(rows), mapping)

\* mutant: the denominators of precision and recall are exchanged
PerClassOf_SwappedDen(acc, c) ==
    LET precisionDen == acc.tp[c] + acc.fn[c]
        recallDen    == acc.tp[c] + acc.fp[c]
        precision    == IF precisionDen # 0
                        THEN NumDiv(Num(acc.tp[c]), Num(precisionDen)) ELSE Num(0)
        recall       == IF recallDen # 0
                        THEN NumDiv(Num(acc.tp[c]), Num(recallDen)) ELSE Num(0)
        f1           == IF NumPositive(NumAdd(precision, recall))
                        THEN NumDiv(NumMul(Num(2), NumMul(precision, recall)),
                                    NumAdd(precision, recall))
                        ELSE Num(0)
    IN  [label |-> c, precision |-> precision, recall |-> recall, f1 |-> f1]

\* classes.map((c) => ...)
PerClassOf(acc, c) ==
    LET precisionDen == acc.tp[c] + acc.fp[c]
        recallDen    == acc.tp[c] + acc.fn[c]
        precision    == IF precisionDen # 0
                        THEN NumDiv(Num(acc.tp[c]), Num(precisionDen)) ELSE Num(0)
        recall       == IF recallDen # 0
                        THEN NumDiv(Num(acc.tp[c]), Num(recallDen)) ELSE Num(0)
        f1           == IF NumPositive(NumAdd(precision, recall))
                        THEN NumDiv(NumMul(Num(2), NumMul(precision, recall)),
                                    NumAdd(precision, recall))
                        ELSE Num(0)
    IN  [label |-> c, precision |-> precision, recall |-> recall, f1 |-> f1]

\* perClass.reduce((sum, c) => sum + (Number.isFinite(c.f1) ? c.f1 : 0), 0)
RECURSIVE SumF1(_, _)
SumF1(perClass, i) ==
    IF i = 0 THEN Num(0)
    ELSE NumAdd(SumF1(perClass, i - 1),
                IF isFinite(perClass[i].f1) THEN perClass[i].f1 ELSE Num(0))

\* mutant: macroF1 averages over the classes that have support only
MacroDivisor_Support(acc) ==
    LET supported == {c \in CODES : acc.tp[c] + acc.fn[c] > 0}
    IN  IF supported = {} THEN Len(classes) ELSE Cardinality(supported)

\* the divisor of macroF1: classes.length
MacroDivisor(acc) == Len(classes)

NoMetrics == [tag |-> "null"]

computeMetricsForReviews(rows, mapping0) ==
    IF Len(rows) = 0 THEN NoMetrics
    ELSE LET mapping  == normalizeLabelMapping(mapping0)
             acc      == Tally(TallyInit, rows, mapping)
             perClass == [i \in DOMAIN classes |-> PerClassOf(acc, classes[i])]
             macroF1  == NumDiv(SumF1(perClass, Len(classes)), Num(MacroDivisor(acc)))
         IN  [tag |-> "metrics", macroF1 |-> macroF1, perClass |-> perClass,
              confusionMatrix |-> acc.confusion]

\* MetricsPage: const metrics = useMemo(...); hasMetrics = !!metrics
metrics == computeMetricsForReviews(reviews, labelMapping)

hasMetrics == metrics.tag # "null"

----------------------------------------------------------------------------
(* services/sentimentApi.ts *)

getRowId(row, idx) == IF row.id # Absent THEN row.id ELSE idx + 1

\* what the backend may answer for the rows: a label or nothing per row ID
BackendResponses(rows) ==
    [{getRowId(rows[i], i - 1) : i \in DOMAIN rows} -> OptLabel]

\* mutant: the analysed records keep the status raw
analyzeRows_Raw(rows, predictionsById) ==
    [i \in DOMAIN rows |->
        LET id        == getRowId(rows[i], i - 1)
            predicted == predictionsById[id]
            label     == IF predicted # Absent THEN predicted ELSE 1
        IN  [id |-> id, text |-> rows[i].text, predictedLabel |-> label,
             trueLabel |-> Absent, correctedLabel |-> Absent,
             status |-> "raw"]]

\* rows.map((raw, idx) => ...) of analyzeRows; predictionsById is the parsed response
analyzeRows(rows, predictionsById) ==
    [i \in DOMAIN rows |->
        LET id        == getRowId(rows[i], i - 1)
            predicted == predictionsById[id]
            label     == IF predicted # Absent THEN predicted ELSE 1
        IN  [id |-> id, text |-> rows[i].text, predictedLabel |-> label,
             trueLabel |-> Absent, correctedLabel |-> Absent,
             status |-> "predicted"]]

----------------------------------------------------------------------------
(* services/csvUtils.ts; a string, and so a file, is the sequence of its characters *)

Digits == <<"0", "1", "2", "3", "4", "5", "6", "7", "8", "9">>

RECURSIVE ToStr(_)
\* String(n) of a non-negative integer
ToStr(n) ==
    IF n < 10 THEN <<Digits[n + 1]>>
    ELSE ToStr(n \div 10) \o <<Digits[(n % 10) + 1]>>

\* the greatest element of a non-empty set of positions
Last(S) == CHOOSE i \in S : \A j \in S : j <= i

IsSpace(ch) == ch \in {" ", "\t", "\r", "\n"}

RECURSIVE TrimEnd(_)
\* l.trimEnd()
TrimEnd(t) ==
    IF t # <<>> /\ IsSpace(t[Len(t)]) THEN TrimEnd(SubSeq(t, 1, Len(t) - 1)) ELSE t

RECURSIVE TrimStart(_)
TrimStart(t) == IF t # <<>> /\ IsSpace(Head(t)) THEN TrimStart(Tail(t)) ELSE t

\* s.trim()
StrTrim(t) == TrimEnd(TrimStart(t))

UpperCase == <<"A", "B", "C", "D", "E", "F", "G", "H", "I", "J", "K", "L", "M",
               "N", "O", "P", "Q", "R", "S", "T", "U", "V", "W", "X", "Y", "Z">>

LowerCase == <<"a", "b", "c", "d", "e", "f", "g", "h", "i", "j", "k", "l", "m",
               "n", "o", "p", "q", "r", "s", "t", "u", "v", "w", "x", "y", "z">>

\* h.toLowerCase()
toLowerCase(t) ==
    [i \in DOMAIN t |->
        IF \E k \in DOMAIN UpperCase : UpperCase[k] = t[i]
        THEN LowerCase[CHOOSE k \in DOMAIN UpperCase : UpperCase[k] = t[i]]
        ELSE t[i]]

\* Array.prototype.indexOf, positions counted from 0
indexOf(array, x) ==
    LET hits == {i \in DOMAIN array : array[i] = x}
    IN  IF hits = {} THEN -1 ELSE (CHOOSE i \in hits : \A j \in hits : i <= j) - 1

NotANumber == 99

RECURSIVE DigitsValue(_)
DigitsValue(t) ==
    IF t = <<>> THEN 0
    ELSE DigitsValue(SubSeq(t, 1, Len(t) - 1)) * 10 + indexOf(Digits, t[Len(t)])

\* Number(labelRaw) of a trimmed, non-empty cell: the value of a string of decimal
\* digits, NaN for a cell with any other character
Number(t) ==
    IF \A i \in DOMAIN t : indexOf(Digits, t[i]) >= 0 THEN DigitsValue(t) ELSE NotANumber

RECURSIVE SplitFrom(_, _, _, _)
SplitFrom(text, i, current, result) ==
    IF i > Len(text) THEN Append(result, current)
    ELSE IF text[i] = "\n" THEN SplitFrom(text, i + 1, <<>>, Append(result, current))
    ELSE IF text[i] = "\r" /\ i + 1 <= Len(text) /\ text[i + 1] = "\n"
         THEN SplitFrom(text, i + 2, <<>>, Append(result, current))
    ELSE SplitFrom(text, i + 1, Append(current, text[i]), result)

NonEmpty(l) == Len(l) > 0

\* text.split(/\r?\n/).map((l) => l.trimEnd()).filter((l) => l.length > 0)
FileLines(text) ==
    LET split == SplitFrom(text, 1, <<>>, <<>>)
    IN  SelectSeq([i \in DOMAIN split |-> TrimEnd(split[i])], NonEmpty)

RECURSIVE ParseCsvFrom(_, _, _, _, _)
ParseCsvFrom(line, i, current, inQuotes, result) ==
    IF i > Len(line) THEN Append(result, current)
    ELSE IF line[i] = "\""
         THEN IF inQuotes /\ i + 1 <= Len(line) /\ line[i + 1] = "\""
              THEN ParseCsvFrom(line, i + 2, Append(current, "\""), inQuotes, result)
              ELSE ParseCsvFrom(line, i + 1, current, ~inQuotes, result)
    ELSE IF line[i] = "," /\ ~inQuotes
         THEN ParseCsvFrom(line, i + 1, <<>>, inQuotes, Append(result, current))
    ELSE ParseCsvFrom(line, i + 1, Append(current, line[i]), inQuotes, result)

parseCsvLine(line) == ParseCsvFrom(line, 1, <<>>, FALSE, <<>>)

\* row[h] = tokens[idx] ?? '' for every header, a later column of the same name wins
buildRowFromTokens(headers, tokens) ==
    [h \in {headers[i] : i \in DOMAIN headers} |->
        LET idx == Last({i \in DOMAIN headers : headers[i] = h})
        IN  IF idx \in DOMAIN tokens THEN tokens[idx] ELSE <<>>]

\* headerTokens.map((h) => h.trim())
HeadersOf(lines) ==
    LET headerTokens == parseCsvLine(lines[1])
    IN  [i \in DOMAIN headerTokens |-> StrTrim(headerTokens[i])]

LowerOf(headers) == [i \in DOMAIN headers |-> toLowerCase(headers[i])]

\* data[headers[idx]] of the line, '' when the column is missing (idx = -1)
CellOf(headers, line, idx) ==
    IF idx = -1 THEN <<>>
    ELSE buildRowFromTokens(headers, parseCsvLine(line))[headers[idx + 1]]

\* label of parseInputCsv: 0, 1, 2 or undefined
InputLabelOf(labelRaw) ==
    IF labelRaw # <<>> /\ Number(labelRaw) \in CODES THEN Number(labelRaw) ELSE Absent

RECURSIVE InputRowsFrom(_, _, _, _, _, _)
\* the loop of parseInputCsv over the lines after the header
InputRowsFrom(lines, i, headers, idxText, idxLabel, rows) ==
    IF i > Len(lines) THEN rows
    ELSE LET textVal  == StrTrim(CellOf(headers, lines[i], idxText))
             labelRaw == StrTrim(CellOf(headers, lines[i], idxLabel))
         IN  IF StrTrim(lines[i]) = <<>> \/ textVal = <<>>
             THEN InputRowsFrom(lines, i + 1, headers, idxText, idxLabel, rows)
             ELSE InputRowsFrom(lines, i + 1, headers, idxText, idxLabel,
                      Append(rows, [id |-> Len(rows) + 1, text |-> textVal,
                                    label |-> InputLabelOf(labelRaw)]))

W_text == <<"t", "e", "x", "t">>

W_label == <<"l", "a", "b", "e", "l">>

\* rows of parseInputCsv; id is String(generatedId++), one per retained row
parseInputCsv(file) ==
    LET lines == FileLines(file)
    IN  IF Len(lines) = 0 THEN <<>>
        ELSE LET headers == HeadersOf(lines)
                 idxText == indexOf(LowerOf(headers), W_text)
                 idxLabel == indexOf(LowerOf(headers), W_label)
             IN  IF idxText = -1 THEN <<>>
                 ELSE InputRowsFrom(lines, 2, headers, idxText, idxLabel, <<>>)

RECURSIVE ValidationRowsFrom(_, _, _, _, _, _)
\* the loop of parseValidationCsv over the lines after the header
ValidationRowsFrom(lines, i, headers, idxText, idxLabel, result) ==
    IF i > Len(lines) THEN result
    ELSE LET textVal  == StrTrim(CellOf(headers, lines[i], idxText))
             labelRaw == StrTrim(CellOf(headers, lines[i], idxLabel))
         IN  IF \/ StrTrim(lines[i]) = <<>>
                \/ textVal = <<>>
                \/ labelRaw = <<>>
                \/ Number(labelRaw) \notin CODES
             THEN ValidationRowsFrom(lines, i + 1, headers, idxText, idxLabel, result)
             ELSE ValidationRowsFrom(lines, i + 1, headers, idxText, idxLabel,
                      Append(result, [text |-> textVal, trueLabel |-> Number(labelRaw)]))

parseValidationCsv(file) ==
    LET lines == FileLines(file)
    IN  IF Len(lines) = 0 THEN <<>>
        ELSE LET headers == HeadersOf(lines)
                 idxText == indexOf(LowerOf(headers), W_text)
                 idxLabel == indexOf(LowerOf(headers), W_label)
             IN  IF idxText = -1 \/ idxLabel = -1 THEN <<>>
                 ELSE ValidationRowsFrom(lines, 2, headers, idxText, idxLabel, <<>>)

----------------------------------------------------------------------------
(* context/AnalysisContext.tsx *)

RECURSIVE CollapseSpaces(_)
\* t.replace(/\s+/g, ' ')
CollapseSpaces(t) ==
    IF Len(t) <= 1 THEN t
    ELSE IF t[1] = " " /\ t[2] = " " THEN CollapseSpaces(Tail(t))
         ELSE <<t[1]>> \o CollapseSpaces(Tail(t))

\* .trim(), after the collapse at most one blank at either end
Trim(t) ==
    LET a == IF t # <<>> /\ Head(t) = " " THEN Tail(t) ELSE t
    IN  IF a # <<>> /\ a[Len(a)] = " " THEN SubSeq(a, 1, Len(a) - 1) ELSE a

normalizeText(t) == Trim(CollapseSpaces(t))

\* a job without an errorMessage
NoMessage == "undefined"

\* e?.message || 'Ошибка анализа': the message of a failed run is never empty
AnalysisErrorMessage == "analysis error"

NoJob == [status |-> "null", totalRows |-> 0, processedRows |-> 0,
          errorMessage |-> NoMessage]

NoAnalysis == <<>>

NoDataset == [fileName |-> "null", totalRows |-> 0, previewRows |-> <<>>]

\* rows.slice(0, 10)
PreviewRows == 10

Min(a, b) == IF a < b THEN a ELSE b

defaultFilters ==
    [sentiments |-> {0, 1, 2}, sources |-> {}, status |-> "all",
     searchMode |-> "text", searchQuery |-> <<>>]

\* the name of the loaded file, where the input is given as its parsed rows
FileName == "reviews.csv"

\* id: String(generatedId++) of parseInputCsv
InputRowsOf(r) ==
    [i \in DOMAIN r |-> [id |-> i, text |-> r[i].text, label |-> r[i].label]]

\* the files a user may load, as parseInputCsv returns them
InputFiles ==
    UNION {{InputRowsOf(r) : r \in [1..n -> [text : Texts, label : InputLabels]]} :
             n \in 0..MaxRows}

\* the validation files, as parseValidationCsv returns them
ValidationFiles ==
    UNION {[1..n -> [text : ValidationTexts, trueLabel : CODES]] : n \in 0..MaxRows}

\* (r as any).ID ?? (r as any).id on a row of parseValidationCsv
ValidationRowId(r) == Absent

Init ==
    /\ labelMapping = DEFAULT_LABEL_MAPPING
    /\ rawRows = <<>>
    /\ reviews = <<>>
    /\ job = NoJob
    /\ loading = FALSE
    /\ analysis = NoAnalysis
    /\ rawDataset = NoDataset
    /\ filters = defaultFilters

\* SettingsContext.updateSettings, for a patch of the label mapping:
\* { ...prev.labelMapping, ...patch.labelMapping }, a key of the patch wins
updateSettings(patchMapping) ==
    labelMapping' = [c \in CODES |->
        IF c \in DOMAIN patchMapping THEN patchMapping[c] ELSE labelMapping[c]]

\* SettingsPage: the mapping as the page reads it
currentLabelMapping ==
    [c \in CODES |-> Coalesce(labelMapping[c], DEFAULT_LABEL_MAPPING[c])]

\* mutant: the code is set without moving the displaced meaning to the other code
MappingAfterClick_NoSwap(current, code, meaning) ==
    [current EXCEPT ![code] = meaning]

\* mutant: the displaced code receives the meaning of the third code (a rotation)
MappingAfterClick_Rotate(current, code, meaning) ==
    LET prevMeaning == current[code]
        other(c)    == CHOOSE d \in CODES : d # c /\ d # code
    IN  [c \in CODES |->
           IF c = code THEN meaning
           ELSE IF current[c] = meaning THEN current[other(c)]
           ELSE prevMeaning]

\* the mapping handleMappingClick hands to updateSettings
MappingAfterClick(current, code, meaning) ==
    LET prevMeaning == current[code]
        swapped     == [c \in CODES |->
                          IF c # code /\ current[c] = meaning THEN prevMeaning
                          ELSE current[c]]
    IN  [swapped EXCEPT ![code] = meaning]

handleMappingClick(code, meaning) ==
    /\ UNCHANGED <<rawRows, reviews, job, loading, analysis, rawDataset, filters>>
    /\ IF currentLabelMapping[code] = NoMeaning \/ currentLabelMapping[code] = meaning
       THEN UNCHANGED labelMapping
       ELSE updateSettings(MappingAfterClick(currentLabelMapping, code, meaning))

updateFilters(patch) ==
    /\ filters' = [k \in DOMAIN filters |->
                     IF k \in DOMAIN patch THEN patch[k] ELSE filters[k]]
    /\ UNCHANGED <<labelMapping, rawRows, reviews, job, loading, analysis, rawDataset>>

\* mutant: the records and the job of the previous file are kept
StoreAfterLoad_KeepsReviews(store, fileName, rows) ==
    IF Len(rows) = 0 THEN store
    ELSE [rawRows    |-> rows,
          rawDataset |-> [fileName |-> fileName, totalRows |-> Len(rows),
                          previewRows |-> SubSeq(rows, 1, Min(Len(rows), PreviewRows))],
          reviews    |-> store.reviews,
          job        |-> store.job,
          filters    |-> defaultFilters]

\* mutant: the store is written before the parsed rows are looked at
StoreAfterLoad_WriteFirst(store, fileName, rows) ==
    [rawRows    |-> rows,
     rawDataset |-> [fileName |-> fileName, totalRows |-> Len(rows),
                     previewRows |-> SubSeq(rows, 1, Min(Len(rows), PreviewRows))],
     reviews    |-> <<>>,
     job        |-> NoJob,
     filters    |-> defaultFilters]

\* what loadCsvFile leaves in rawRows, rawDataset, reviews, job and filters, given the
\* file's name and the rows parseInputCsv returned for it
StoreAfterLoad(store, fileName, rows) ==
    IF Len(rows) = 0 THEN store
    ELSE [rawRows    |-> rows,
          rawDataset |-> [fileName |-> fileName, totalRows |-> Len(rows),
                          previewRows |-> SubSeq(rows, 1, Min(Len(rows), PreviewRows))],
          reviews    |-> <<>>,
          job        |-> NoJob,
          filters    |-> defaultFilters]

\* the part of the state loadCsvFile may write
Store ==
    [rawRows |-> rawRows, rawDataset |-> rawDataset, reviews |-> reviews,
     job |-> job, filters |-> filters]

loadCsvFile(fileName, rows) ==
    /\ LET after == StoreAfterLoad(Store, fileName, rows)
       IN  /\ rawRows' = after.rawRows
           /\ rawDataset' = after.rawDataset
           /\ reviews' = after.reviews
           /\ job' = after.job
           /\ filters' = after.filters
    /\ loading' = FALSE
    /\ UNCHANGED <<labelMapping, analysis>>

\* runAnalysis up to its await
runAnalysisStart ==
    /\ analysis = NoAnalysis
    /\ Len(rawRows) # 0
    /\ job' = [status |-> "processing", totalRows |-> Len(rawRows), processedRows |-> 0,
               errorMessage |-> NoMessage]
    /\ loading' = TRUE
    /\ analysis' = rawRows
    /\ UNCHANGED <<labelMapping, rawRows, reviews, rawDataset, filters>>

\* mutant: the labels of the input rows are not carried over
analyzedWithTrue_NoTrue(rows, predictionsById) == analyzeRows(rows, predictionsById)

\* analyzedBase.map((r, idx) => ...) of runAnalysis, rows being the rawRows of its closure
analyzedWithTrue(rows, predictionsById) ==
    LET analyzedBase == analyzeRows(rows, predictionsById)
    IN  [i \in DOMAIN analyzedBase |->
            IF rows[i].label # Absent
            THEN [analyzedBase[i] EXCEPT !.trueLabel = rows[i].label]
            ELSE analyzedBase[i]]

\* runAnalysis after the await, the backend having answered
runAnalysisFinish(predictionsById) ==
    /\ analysis # NoAnalysis
    /\ reviews' = analyzedWithTrue(analysis, predictionsById)
    /\ job' = IF job.status # "null"
              THEN [job EXCEPT !.status = "finished",
                               !.processedRows = Len(analyzedWithTrue(analysis, predictionsById))]
              ELSE job
    /\ loading' = FALSE
    /\ analysis' = NoAnalysis
    /\ UNCHANGED <<labelMapping, rawRows, rawDataset, filters>>

\* mutant: the catch block leaves the job as it is
runAnalysisFail_KeepsJob ==
    /\ analysis # NoAnalysis
    /\ job' = job
    /\ loading' = FALSE
    /\ analysis' = NoAnalysis
    /\ UNCHANGED <<labelMapping, rawRows, reviews, rawDataset, filters>>

\* runAnalysis after the await, the backend call having thrown
runAnalysisFail ==
    /\ analysis # NoAnalysis
    /\ job' = IF job.status # "null"
              THEN [job EXCEPT !.status = "failed", !.errorMessage = AnalysisErrorMessage]
              ELSE job
    /\ loading' = FALSE
    /\ analysis' = NoAnalysis
    /\ UNCHANGED <<labelMapping, rawRows, reviews, rawDataset, filters>>

\* mutant: the status is left as it was when the correction is cleared
CorrectedRow_KeepsStatus(row, label) ==
    LET nextStatus == IF label = Absent THEN row.status ELSE "corrected"
    IN  [row EXCEPT !.correctedLabel = label, !.status = nextStatus]

CorrectedRow(row, label) ==
    LET nextStatus == IF label = Absent
                      THEN IF row.predictedLabel # Absent THEN "predicted" ELSE "raw"
                      ELSE "corrected"
    IN  [row EXCEPT !.correctedLabel = label, !.status = nextStatus]

\* prev.map((row) => ...) of updateCorrectedLabel
CorrectedReviews(prev, id, label) ==
    [i \in DOMAIN prev |->
        IF prev[i].id # id THEN prev[i] ELSE CorrectedRow(prev[i], label)]

updateCorrectedLabel(id, label) ==
    /\ reviews' = CorrectedReviews(reviews, id, label)
    /\ UNCHANGED <<labelMapping, rawRows, job, loading, analysis, rawDataset, filters>>

\* the three lookup tables of applyValidationFile, each as its get(key): the label
\* of the last row that set the key (Map.set overwrites), Absent when has(key) is false
idToTrue(validationRows, key) ==
    LET hits == {i \in DOMAIN validationRows :
                    /\ ValidationRowId(validationRows[i]) # Absent
                    /\ ValidationRowId(validationRows[i]) = key}
    IN  IF hits = {} THEN Absent ELSE validationRows[Last(hits)].trueLabel

\* mutant: the first row with the text wins
textToTrue_First(validationRows, key) ==
    LET hits == {i \in DOMAIN validationRows :
                    /\ Len(StrTrim(validationRows[i].text)) > 0
                    /\ normalizeText(validationRows[i].text) = key}
    IN  IF hits = {} THEN Absent
        ELSE validationRows[CHOOSE i \in hits : \A j \in hits : i <= j].trueLabel

textToTrue(validationRows, key) ==
    LET hits == {i \in DOMAIN validationRows :
                    /\ Len(StrTrim(validationRows[i].text)) > 0
                    /\ normalizeText(validationRows[i].text) = key}
    IN  IF hits = {} THEN Absent ELSE validationRows[Last(hits)].trueLabel

\* mutant: the positions of the rows are counted from 1
indexToTrue_FromOne(validationRows, idx) ==
    IF idx \in DOMAIN validationRows THEN validationRows[idx].trueLabel ELSE Absent

indexToTrue(validationRows, idx) ==
    IF idx + 1 \in DOMAIN validationRows THEN validationRows[idx + 1].trueLabel ELSE Absent

\* mutant: a matched record is rebuilt as a freshly predicted one
ValidatedRow_Rebuilt(row, idx, validationRows) ==
    LET byId    == IF row.id # Absent THEN idToTrue(validationRows, row.id) ELSE Absent
        byText  == textToTrue(validationRows, normalizeText(row.text))
        byIndex == indexToTrue(validationRows, idx)
        fresh   == [row EXCEPT !.correctedLabel = Absent, !.status = "predicted"]
    IN  IF byId # Absent THEN [fresh EXCEPT !.trueLabel = byId]
        ELSE IF byText # Absent THEN [fresh EXCEPT !.trueLabel = byText]
        ELSE IF byIndex # Absent THEN [fresh EXCEPT !.trueLabel = byIndex]
        ELSE row

\* mutant: a record that matches no row loses its trueLabel
ValidatedRow_ClearsUnmatched(row, idx, validationRows) ==
    LET byId    == IF row.id # Absent THEN idToTrue(validationRows, row.id) ELSE Absent
        byText  == textToTrue(validationRows, normalizeText(row.text))
        byIndex == indexToTrue(validationRows, idx)
    IN  IF byId # Absent THEN [row EXCEPT !.trueLabel = byId]
        ELSE IF byText # Absent THEN [row EXCEPT !.trueLabel = byText]
        ELSE IF byIndex # Absent THEN [row EXCEPT !.trueLabel = byIndex]
        ELSE [row EXCEPT !.trueLabel = Absent]

\* the body of prev.map((row, idx) => ...) of applyValidationFile
ValidatedRow(row, idx, validationRows) ==
    LET byId    == IF row.id # Absent THEN idToTrue(validationRows, row.id) ELSE Absent
        byText  == textToTrue(validationRows, normalizeText(row.text))
        byIndex == indexToTrue(validationRows, idx)
    IN  IF byId # Absent THEN [row EXCEPT !.trueLabel = byId]
        ELSE IF byText # Absent THEN [row EXCEPT !.trueLabel = byText]
        ELSE IF byIndex # Absent THEN [row EXCEPT !.trueLabel = byIndex]
        ELSE row

\* prev.map((row, idx) => ...) of applyValidationFile
ValidatedReviews(prev, validationRows) ==
    [i \in DOMAIN prev |-> ValidatedRow(prev[i], i - 1, validationRows)]

applyValidationFile(validationRows) ==
    /\ reviews' = ValidatedReviews(reviews, validationRows)
    /\ loading' = FALSE
    /\ UNCHANGED <<labelMapping, rawRows, job, analysis, rawDataset, filters>>

\* prev.map((row) => ({ ...row, trueLabel: undefined })) of resetValidation
ResetReviews(prev) == [i \in DOMAIN prev |-> [prev[i] EXCEPT !.trueLabel = Absent]]

resetValidation ==
    /\ reviews' = ResetReviews(reviews)
    /\ UNCHANGED <<labelMapping, rawRows, job, loading, analysis, rawDataset, filters>>

----------------------------------------------------------------------------
(* pages/ResultsPage.tsx: the export of the final results *)

\* mutant: the prediction is taken before the correction
BaseFinal_PredictedFirst(row) ==
    IF row.predictedLabel # Absent THEN row.predictedLabel ELSE row.correctedLabel

\* row.correctedLabel ?? row.predictedLabel
BaseFinal(row) ==
    IF row.correctedLabel # Absent THEN row.correctedLabel ELSE row.predictedLabel

\* labelValue of handleDownloadFinalCsv: '' or String(datasetCode)
FinalLabelValue(row, mapping) ==
    LET baseFinal == BaseFinal(row)
    IN  IF baseFinal \in CODES
        THEN LET concept     == modelCodeToConceptLabel(baseFinal)
                 datasetCode == IF concept # Absent
                                THEN conceptLabelToDatasetCode(concept, mapping)
                                ELSE baseFinal
             IN  ToStr(datasetCode)
        ELSE <<>>

RECURSIVE EscapeQuotes(_)
\* text.replace(/"/g, '""')
EscapeQuotes(t) ==
    IF t = <<>> THEN <<>>
    ELSE IF Head(t) = "\"" THEN <<"\"", "\"">> \o EscapeQuotes(Tail(t))
         ELSE <<Head(t)>> \o EscapeQuotes(Tail(t))

\* `${safeText},${labelValue}`
FinalCsvLine(row, mapping) ==
    <<"\"">> \o EscapeQuotes(row.text) \o <<"\"", ",">> \o FinalLabelValue(row, mapping)

FinalCsvHeader == <<"t", "e", "x", "t", ",", "l", "a", "b", "e", "l">>

RECURSIVE JoinLines(_)
\* lines.join('\n')
JoinLines(lines) ==
    IF lines = <<>> THEN <<>>
    ELSE IF Len(lines) = 1 THEN lines[1]
         ELSE lines[1] \o <<"\n">> \o JoinLines(Tail(lines))

NoDownload == <<"no download">>

\* csvContent of handleDownloadFinalCsv; nothing is downloaded for an empty store
handleDownloadFinalCsv(rows, normalizedLabelMapping) ==
    IF Len(rows) = 0 THEN NoDownload
    ELSE JoinLines(<<FinalCsvHeader>> \o
                   [i \in DOMAIN rows |-> FinalCsvLine(rows[i], normalizedLabelMapping)])

Next ==
    \/ \E code \in CODES, meaning \in MEANING_ORDER : handleMappingClick(code, meaning)
    \/ \E rows \in InputFiles : loadCsvFile(FileName, rows)
    \/ runAnalysisStart
    \/ \E predictionsById \in BackendResponses(analysis) : runAnalysisFinish(predictionsById)
    \/ runAnalysisFail
    \/ \E id \in 1..MaxRows, label \in CorrectionInputs : updateCorrectedLabel(id, label)
    \/ \E validationRows \in ValidationFiles : applyValidationFile(validationRows)
    \/ resetValidation

Spec == Init /\ [][Next]_vars

----------------------------------------------------------------------------
(* The same operations on CSV files as the user supplies them *)

RECURSIVE CommaJoin(_)
\* a CSV line of unquoted cells
CommaJoin(cells) ==
    IF cells = <<>> THEN <<>>
    ELSE IF Len(cells) = 1 THEN cells[1]
         ELSE cells[1] \o <<",">> \o CommaJoin(Tail(cells))

\* a file of the given lines
Csv(lines) == JoinLines([i \in DOMAIN lines |-> CommaJoin(lines[i])])

\* the input files a user may load: an empty file, a file without a text column, a
\* file with an ID column, a label column and mixed-case headers, and a file with a
\* quoted text and a blank line
InputCsvFiles ==
    {[name |-> "empty.csv", content |-> <<>>],
     [name |-> "notext.csv",
      content |-> Csv(<< <<<<"i", "d">>, W_label>>, <<<<"A">>, <<"1">>>> >>)],
     [name |-> "ids.csv",
      content |-> Csv(<< <<<<"I", "D">>, <<"T", "e", "x", "t">>, W_label>>,
                         <<<<"B">>, <<"x">>, <<"1">>>>,
                         <<<<>>, <<"x">>, <<>>>> >>)],
     [name |-> "plain.csv",
      content |-> Csv(<< <<W_text>>,
                         <<<<"\"", "x", " ", " ", "y", "\"">>>>,
                         <<<<" ", " ">>>>,
                         <<<<"x">>>> >>)]}

\* the validation files a user may apply: an empty file, a header without a label
\* column, a file whose rows are all filtered out, a file with an ID column, a file
\* with repeated and differently spaced texts, a file matching by position only
\* and with a dropped row, and a file of one row
ValidationCsvFiles ==
    {<<>>,
     Csv(<< <<W_text>>, <<<<"x">>>> >>),
     Csv(<< <<W_text, W_label>>,
            <<<<"x">>, <<>>>>, <<<<>>, <<"1">>>>, <<<<"x">>, <<"7">>>> >>),
     Csv(<< <<<<"I", "D">>, W_text, W_label>>,
            <<<<"2">>, <<"z">>, <<"0">>>>, <<<<"1">>, <<"z">>, <<"2">>>> >>),
     Csv(<< <<W_label, W_text>>,
            <<<<"1">>, <<"x">>>>, <<<<"0">>, <<"x", " ", "y">>>>,
            <<<<"2">>, <<" ", "x", " ">>>> >>),
     Csv(<< <<W_text, W_label>>,
            <<<<"z">>, <<"1">>>>, <<<<"z">>, <<>>>>, <<<<"z">>, <<"0">>>> >>),
     Csv(<< <<W_text, W_label>>, <<<<"z">>, <<"2">>>> >>)}

\* the patches of the filter panel
FilterPatches == {[status |-> "corrected"], [status |-> "all"]}

NextCsv ==
    \/ \E file \in InputCsvFiles : loadCsvFile(file.name, parseInputCsv(file.content))
    \/ runAnalysisStart
    \/ \E predictionsById \in BackendResponses(analysis) : runAnalysisFinish(predictionsById)
    \/ runAnalysisFail
    \/ \E id \in 1..MaxRows, label \in CorrectionInputs : updateCorrectedLabel(id, label)
    \/ \E file \in ValidationCsvFiles : applyValidationFile(parseValidationCsv(file))
    \/ resetValidation
    \/ \E patch \in FilterPatches : updateFilters(patch)

SpecCsv == Init /\ [][NextCsv]_vars

\* the backend call of a run in flight returns or throws
BackendReturns ==
    \/ \E predictionsById \in BackendResponses(analysis) : runAnalysisFinish(predictionsById)
    \/ runAnalysisFail

\* the same operations, every backend call eventually returning or throwing
SpecFair == Init /\ [][NextCsv]_vars /\ WF_vars(BackendReturns)

----------------------------------------------------------------------------
(* The application started with a persisted configuration *)

\* the labelMapping objects localStorage may hold: any of the three keys, each with
\* any meaning (the empty one stands for no stored mapping)
StoredMappings == UNION {[D -> MEANING_ORDER] : D \in SUBSET CODES}

\* { ...defaultSettings.labelMapping, ...(parsed.labelMapping ?? {}) }
InitialLabelMapping(stored) ==
    [c \in CODES |-> IF c \in DOMAIN stored THEN stored[c] ELSE DEFAULT_LABEL_MAPPING[c]]

InitStored ==
    /\ \E stored \in StoredMappings : labelMapping = InitialLabelMapping(stored)
    /\ rawRows = <<>>
    /\ reviews = <<>>
    /\ job = NoJob
    /\ loading = FALSE
    /\ analysis = NoAnalysis
    /\ rawDataset = NoDataset
    /\ filters = defaultFilters

NextStored ==
    \/ \E code \in CODES, meaning \in MEANING_ORDER : handleMappingClick(code, meaning)
    \/ \E rows \in InputFiles : loadCsvFile(FileName, rows)
    \/ runAnalysisStart
    \/ \E predictionsById \in BackendResponses(analysis) : runAnalysisFinish(predictionsById)
    \/ runAnalysisFail

SpecStored == InitStored /\ [][NextStored]_vars

----------------------------------------------------------------------------
(* Properties *)

IsBijection(m) ==
    /\ DOMAIN m = CODES
    /\ \A c \in CODES : m[c] \in MEANING_ORDER
    /\ \A c, d \in CODES : c # d => m[c] # m[d]

\* the mapping the metrics and the conversions work with
activeMapping == normalizeLabelMapping(labelMapping)

\* the semantic class a record's true label stands for, by the meaning of its code
TrueClassOf(r) ==
    IF r.trueLabel \in CODES /\ activeMapping[r.trueLabel] \in MEANING_ORDER
    THEN CHOOSE c \in CODES : MODEL_MEANING[c] = activeMapping[r.trueLabel]
    ELSE Absent

\* the positions of the records that take part in the metrics
Qualifying ==
    {i \in DOMAIN reviews :
        TrueClassOf(reviews[i]) # Absent /\ reviews[i].predictedLabel \in CODES}

RECURSIVE SumOver(_, _)
SumOver(f, S) ==
    IF S = {} THEN 0
    ELSE LET x == CHOOSE x \in S : TRUE IN f[x] + SumOver(f, S \ {x})

\* C1: from the default mapping, after any sequence of mapping clicks, the label
\* mapping is a bijection between {0,1,2} and {negative, neutral, positive}.
C1_MappingIsBijection == IsBijection(labelMapping)

\* two clicks from the default mapping: every code has changed its meaning
C1_Witness ==
    /\ labelMapping[0] = "neutral"
    /\ labelMapping[1] = "positive"
    /\ labelMapping[2] = "negative"

\* C2: a mapping click is a transposition: nothing changes when the code already
\* has the meaning; otherwise the code gets the meaning, the code that had the
\* meaning gets the displaced one, and the third code keeps its meaning.
C2_ClickIsTransposition ==
    [][\A code \in CODES, meaning \in MEANING_ORDER :
          handleMappingClick(code, meaning) =>
             IF labelMapping[code] = meaning
             THEN labelMapping' = labelMapping
             ELSE \E other \in CODES \ {code} :
                     /\ labelMapping[other] = meaning
                     /\ labelMapping'[code] = meaning
                     /\ labelMapping'[other] = labelMapping[code]
                     /\ \A c \in CODES \ {code, other} :
                           labelMapping'[c] = labelMapping[c]]_vars

\* one click on the default mapping: codes 0 and 2 exchanged, code 1 kept
C2_Witness ==
    /\ labelMapping[0] = "positive"
    /\ labelMapping[1] = "neutral"
    /\ labelMapping[2] = "negative"
    /\ reviews = <<>>

\* C3: under the active (bijective) mapping, converting a semantic class to its
\* dataset code and back returns the class.
C3_RoundTrip ==
    \A y \in CODES :
        datasetCodeToConceptLabel(conceptLabelToDatasetCode(y, activeMapping),
                                  activeMapping) = y

\* a mapping under which class 0 has dataset code 2
C3_Witness ==
    /\ conceptLabelToDatasetCode(0, activeMapping) = 2
    /\ datasetCodeToConceptLabel(2, activeMapping) = 0
    /\ conceptLabelToDatasetCode(1, activeMapping) = 0

\* C4: for every record store, updateCorrectedLabel(id, label), setting or
\* clearing a correction, leaves the result of computeMetricsForReviews unchanged.
C4_CorrectionKeepsMetrics ==
    \A id \in 1..MaxRows, label \in OptLabel :
        computeMetricsForReviews(CorrectedReviews(reviews, id, label), labelMapping)
           = metrics

\* a record that takes part in the metrics and is corrected to another label
C4_Witness ==
    \E i \in Qualifying :
        /\ reviews[i].correctedLabel # Absent
        /\ reviews[i].correctedLabel # reviews[i].predictedLabel
        /\ reviews[i].status = "corrected"

\* C5: when no record has both a resolvable true and predicted concept, the
\* metrics engine returns the "no metrics" result.
C5_NoneQualifyGivesNoMetrics == Qualifying = {} => ~hasMetrics

\* C6: confusion[t][p] is the number of records whose true label stands for
\* class t and whose predicted label is p; the other records add nothing, so
\* the nine entries sum to the number of qualifying records.
C6_ConfusionCounts ==
    hasMetrics =>
        /\ \A t, p \in CODES :
              metrics.confusionMatrix[t][p] =
                 Cardinality({i \in DOMAIN reviews :
                                 /\ TrueClassOf(reviews[i]) = t
                                 /\ reviews[i].predictedLabel = p})
        /\ SumOver([c \in CODES |-> SumOver(metrics.confusionMatrix[c], CODES)], CODES)
              = Cardinality(Qualifying)

\* a counted record off the diagonal next to a record without a true label
C6_Witness ==
    /\ hasMetrics
    /\ \E i \in Qualifying : TrueClassOf(reviews[i]) # reviews[i].predictedLabel
    /\ \E i \in DOMAIN reviews : reviews[i].trueLabel = Absent
    /\ labelMapping # DEFAULT_LABEL_MAPPING

\* C7: macroF1 is the sum of the three per-class F1 divided by 3; when every
\* qualifying record has true and predicted class equal to one class, it is 1/3.
C7_MacroF1DividesByThree ==
    hasMetrics =>
        /\ metrics.macroF1 =
              NumDiv(NumAdd(NumAdd(metrics.perClass[1].f1, metrics.perClass[2].f1),
                            metrics.perClass[3].f1), Num(3))
        /\ (/\ Qualifying # {}
            /\ \E c \in CODES : \A i \in Qualifying :
                  TrueClassOf(reviews[i]) = c /\ reviews[i].predictedLabel = c)
              => metrics.macroF1 = <<1, 3>>

\* two records, both of one class and both predicted right
C7_Witness ==
    /\ hasMetrics
    /\ Qualifying = {1, 2}
    /\ \A i \in Qualifying : TrueClassOf(reviews[i]) = 2 /\ reviews[i].predictedLabel = 2
    /\ metrics.macroF1 = <<1, 3>>

\* counts of class c read off the confusion matrix
ConfTp(conf, c) == conf[c][c]

ConfFp(conf, c) == SumOver([t \in CODES |-> conf[t][c]], CODES) - conf[c][c]

ConfFn(conf, c) == SumOver(conf[c], CODES) - conf[c][c]

\* C8: precision = tp/(tp+fp) and recall = tp/(tp+fn) with tp, fp, fn read off
\* the confusion matrix, each 0 when its denominator is 0; f1 is 0 when tp = 0;
\* no value is the result of a division by zero.
C8_PrecisionRecall ==
    hasMetrics =>
        \A i \in DOMAIN classes :
            LET c  == classes[i]
                tp == ConfTp(metrics.confusionMatrix, c)
                fp == ConfFp(metrics.confusionMatrix, c)
                fn == ConfFn(metrics.confusionMatrix, c)
                pc == metrics.perClass[i]
            IN  /\ pc.label = c
                /\ pc.precision = IF tp + fp = 0 THEN <<0, 1>> ELSE Norm(tp, tp + fp)
                /\ pc.recall = IF tp + fn = 0 THEN <<0, 1>> ELSE Norm(tp, tp + fn)
                /\ tp = 0 => pc.f1 = <<0, 1>>
                /\ pc.precision # NaN /\ pc.recall # NaN /\ pc.f1 # NaN
                /\ metrics.macroF1 # NaN

\* a class with precision 1/2 and recall 1, and a class with no prediction at all
C8_Witness ==
    /\ hasMetrics
    /\ \E i \in DOMAIN classes :
          /\ metrics.perClass[i].precision = <<1, 2>>
          /\ metrics.perClass[i].recall = <<1, 1>>
          /\ metrics.perClass[i].f1 = <<2, 3>>
    /\ \E i \in DOMAIN classes :
          /\ ConfFn(metrics.confusionMatrix, classes[i]) = 1
          /\ ConfTp(metrics.confusionMatrix, classes[i])
                + ConfFp(metrics.confusionMatrix, classes[i]) = 0
          /\ metrics.perClass[i].precision = <<0, 1>>

\* C9: when some record qualifies and none has true concept = predicted
\* concept, every precision, recall and f1 is 0, macroF1 is 0 and the diagonal
\* of the confusion matrix is 0; the single record true = 0, predicted = 2 under
\* the identity mapping gives confusion[0][2] = 1 and nothing else.
C9_AllWrongGivesZeros ==
    /\ (/\ Qualifying # {}
        /\ \A i \in Qualifying : TrueClassOf(reviews[i]) # reviews[i].predictedLabel)
          => /\ hasMetrics
             /\ \A i \in DOMAIN classes :
                   /\ metrics.perClass[i].precision = <<0, 1>>
                   /\ metrics.perClass[i].recall = <<0, 1>>
                   /\ metrics.perClass[i].f1 = <<0, 1>>
                   /\ metrics.confusionMatrix[classes[i]][classes[i]] = 0
             /\ metrics.macroF1 = <<0, 1>>
    /\ (/\ Len(reviews) = 1
        /\ reviews[1].trueLabel = 0
        /\ reviews[1].predictedLabel = 2
        /\ labelMapping = DEFAULT_LABEL_MAPPING)
          => /\ hasMetrics
             /\ metrics.confusionMatrix = [ZeroConfusion EXCEPT ![0][2] = 1]

\* a record whose true and predicted codes are the same integer but stand for
\* different classes, and no record predicted right
C9_Witness ==
    /\ Qualifying # {}
    /\ \A i \in Qualifying : TrueClassOf(reviews[i]) # reviews[i].predictedLabel
    /\ \E i \in Qualifying : reviews[i].trueLabel = reviews[i].predictedLabel

\* C10: areLabelsEqualByConcept(t, p, m) holds exactly when t and p are codes
\* and the meaning m[t] is the model's meaning of p; under
\* {0: positive, 1: neutral, 2: negative} the pair (1,1) is equal, (0,0) is not.
C10_EqualByConcept ==
    /\ \A t, p \in LabelInputs :
          areLabelsEqualByConcept(t, p, activeMapping)
             <=> (/\ t \in CODES
                  /\ p \in CODES
                  /\ activeMapping[t] = MODEL_MEANING[p])
    /\ (activeMapping = (0 :> "positive") @@ (1 :> "neutral") @@ (2 :> "negative"))
          => /\ areLabelsEqualByConcept(1, 1, activeMapping)
             /\ ~areLabelsEqualByConcept(0, 0, activeMapping)

\* under that mapping, a record with true code 0 and predicted code 0, which
\* differ by concept, and a record with true code 2 and predicted code 0, which agree
C10_Witness ==
    /\ activeMapping = (0 :> "positive") @@ (1 :> "neutral") @@ (2 :> "negative")
    /\ \E i \in DOMAIN reviews :
          /\ reviews[i].trueLabel = 0
          /\ reviews[i].predictedLabel = 0
          /\ ~areLabelsEqualByConcept(reviews[i].trueLabel, reviews[i].predictedLabel,
                                      activeMapping)
    /\ \E i \in DOMAIN reviews :
          /\ reviews[i].trueLabel = 2
          /\ reviews[i].predictedLabel = 0
          /\ areLabelsEqualByConcept(reviews[i].trueLabel, reviews[i].predictedLabel,
                                     activeMapping)

----------------------------------------------------------------------------
(* Export, validation and loading *)

\* the records the export may meet: every combination of prediction and correction
ExportCases ==
    [text : Texts, predictedLabel : OptLabel, correctedLabel : OptLabel]

\* the label a record is exported with: the correction if present, else the prediction
EffectiveLabel(row) ==
    IF row.correctedLabel # Absent THEN row.correctedLabel ELSE row.predictedLabel

\* the dataset codes the mapping assigns to the meaning of a model class
CodesOfClass(class, mapping) == {c \in CODES : mapping[c] = MODEL_MEANING[class]}

\* the label cell of a record is as the claim describes it
ExportCellAsMapped(row) ==
    LET cell == FinalLabelValue(row, activeMapping)
    IN  IF EffectiveLabel(row) = Absent THEN cell = <<>>
        ELSE \E c \in CodesOfClass(EffectiveLabel(row), activeMapping) : cell = ToStr(c)

\* C11 as stated: the export cell is empty when the record has neither correction
\* nor prediction, otherwise the dataset code the active mapping assigns to the
\* meaning of the correction (if present) or the prediction; and under a mapping
\* that is not the identity the cell is never the model's own code of that label.
C11_ExportNeverNativeCode ==
    \A row \in ExportCases \cup {reviews[i] : i \in DOMAIN reviews} :
        /\ ExportCellAsMapped(row)
        /\ (activeMapping # DEFAULT_LABEL_MAPPING /\ EffectiveLabel(row) # Absent)
              => FinalLabelValue(row, activeMapping) # ToStr(EffectiveLabel(row))

\* C11 amended: the export cell is empty when the record has neither correction
\* nor prediction, otherwise the dataset code the active mapping assigns to the
\* meaning of the correction (if present) or the prediction; the cell is the
\* model's own code of that label exactly when the mapping gives that code the
\* model's meaning, which a mapping other than the identity does for one class
\* when it exchanges the other two.
C11_ExportUsesActiveMapping ==
    \A row \in ExportCases \cup {reviews[i] : i \in DOMAIN reviews} :
        /\ ExportCellAsMapped(row)
        /\ EffectiveLabel(row) # Absent
              => (FinalLabelValue(row, activeMapping) = ToStr(EffectiveLabel(row))
                    <=> activeMapping[EffectiveLabel(row)]
                          = MODEL_MEANING[EffectiveLabel(row)])

\* a corrected record whose correction differs from its prediction is exported
\* under a mapping other than the identity, with a code other than the model's
C11_Witness ==
    /\ activeMapping # DEFAULT_LABEL_MAPPING
    /\ \E i \in DOMAIN reviews :
          /\ reviews[i].correctedLabel # Absent
          /\ reviews[i].correctedLabel # reviews[i].predictedLabel
          /\ FinalLabelValue(reviews[i], activeMapping) # ToStr(reviews[i].correctedLabel)
          /\ FinalLabelValue(reviews[i], activeMapping) # <<>>

\* the record store after the final export is applied to it as a validation file
ExportedAndReapplied ==
    ValidatedReviews(reviews,
        parseValidationCsv(handleDownloadFinalCsv(reviews, activeMapping)))

\* C12: after exporting the store (text and re-encoded effective label) and applying
\* that file as a validation file under the same mapping, every record with an
\* effective label has a trueLabel whose concept is the concept of the record's own
\* effective label, also when two records share a normalized text and differ in
\* their effective labels.
C12_ExportImportRoundTrip ==
    \A i \in DOMAIN reviews :
        EffectiveLabel(reviews[i]) # Absent
            => datasetCodeToConceptLabel(ExportedAndReapplied[i].trueLabel, activeMapping)
                 = modelCodeToConceptLabel(EffectiveLabel(reviews[i]))

\* the cell of a line in the column named ID, else in the column named id, '' when
\* the file has neither column
IdCellOf(headers, line) ==
    IF indexOf(headers, <<"I", "D">>) # -1
    THEN CellOf(headers, line, indexOf(headers, <<"I", "D">>))
    ELSE CellOf(headers, line, indexOf(headers, <<"i", "d">>))

\* the data lines of a validation file the parser retains, each with its ID cell,
\* in file order
RetainedLines(file) ==
    LET lines    == FileLines(file)
        headers  == HeadersOf(lines)
        idxText  == indexOf(LowerOf(headers), W_text)
        idxLabel == indexOf(LowerOf(headers), W_label)
        Row(i)   == [id        |-> StrTrim(IdCellOf(headers, lines[i])),
                     text      |-> StrTrim(CellOf(headers, lines[i], idxText)),
                     labelRaw  |-> StrTrim(CellOf(headers, lines[i], idxLabel))]
        Kept(i)  == /\ Row(i).text # <<>>
                    /\ Row(i).labelRaw # <<>>
                    /\ Number(Row(i).labelRaw) \in CODES
        kept     == SelectSeq([i \in 1..(Len(lines) - 1) |-> i + 1], Kept)
    IN  IF Len(lines) = 0 \/ idxText = -1 \/ idxLabel = -1 THEN <<>>
        ELSE [k \in DOMAIN kept |->
                [id |-> Row(kept[k]).id, text |-> Row(kept[k]).text,
                 trueLabel |-> Number(Row(kept[k]).labelRaw)]]

\* the validation files with the rows the parser returns for them and with their
\* retained lines
ValidationCases ==
    {[file |-> file, rows |-> parseValidationCsv(file), retained |-> RetainedLines(file),
      dataLines |-> Len(FileLines(file)) - 1,
      hasColumns |-> /\ Len(FileLines(file)) > 0
                     /\ indexOf(LowerOf(HeadersOf(FileLines(file))), W_text) # -1
                     /\ indexOf(LowerOf(HeadersOf(FileLines(file))), W_label) # -1] :
        file \in ValidationCsvFiles}

\* the record store after a validation file is applied to it
AfterValidation(case) == ValidatedReviews(reviews, case.rows)

\* the retained rows of a file whose ID cell is the identifier of a record
IdHits(case, row) ==
    {k \in DOMAIN case.retained :
        case.retained[k].id # <<>> /\ case.retained[k].id = ToStr(row.id)}

\* C13: a record whose identifier equals the value in the ID/id column of a
\* validation row receives that row's label, whatever its text or position matches.
C13_IdMatchFirst ==
    \A case \in ValidationCases : \A i \in DOMAIN reviews :
        IdHits(case, reviews[i]) # {}
            => AfterValidation(case)[i].trueLabel
                 = case.retained[Last(IdHits(case, reviews[i]))].trueLabel

\* the retained rows of a file whose normalized text is that of a record
TextHits(case, row) ==
    {k \in DOMAIN case.retained :
        normalizeText(case.retained[k].text) = normalizeText(row.text)}

\* C14: a record that matches no validation row by identifier and whose normalized
\* text (white space collapsed, trimmed) is that of some validation row gets the
\* label of the last such row in file order, whatever row stands at its position.
C14_TextMatchLastWins ==
    \A case \in ValidationCases : \A i \in DOMAIN reviews :
        (IdHits(case, reviews[i]) = {} /\ TextHits(case, reviews[i]) # {})
            => AfterValidation(case)[i].trueLabel
                 = case.retained[Last(TextHits(case, reviews[i]))].trueLabel

\* a record whose text is that of two rows with different labels, neither of them
\* the row at the record's position with its label, takes the label of the later row
C14_Witness ==
    \E case \in ValidationCases : \E i \in DOMAIN reviews :
        LET rows == case.retained
            hits == TextHits(case, reviews[i])
        IN  /\ IdHits(case, reviews[i]) = {}
            /\ \E k \in hits : rows[k].trueLabel # rows[Last(hits)].trueLabel
            /\ i \in DOMAIN rows
            /\ rows[i].trueLabel # rows[Last(hits)].trueLabel
            /\ reviews[i].trueLabel # rows[Last(hits)].trueLabel
            /\ AfterValidation(case)[i].trueLabel = rows[Last(hits)].trueLabel

\* C15: a record at position i (from 0) that matches no validation row by identifier
\* or text gets the label of the i-th row the parser retained (rows with an empty
\* text or a label other than 0, 1, 2 are not counted), whenever there is such a
\* row; so with n retained rows every record at a position below n ends with a
\* trueLabel.
C15_PositionFallback ==
    \A case \in ValidationCases : \A i \in DOMAIN reviews :
        /\ (/\ IdHits(case, reviews[i]) = {}
            /\ TextHits(case, reviews[i]) = {}
            /\ i \in DOMAIN case.retained)
              => AfterValidation(case)[i].trueLabel = case.retained[i].trueLabel
        /\ i <= Len(case.retained) => AfterValidation(case)[i].trueLabel \in CODES

\* a record matching no row by identifier or text takes the label of the retained
\* row at its position, in a file that has a filtered row before that row
C15_Witness ==
    \E case \in ValidationCases : \E i \in DOMAIN reviews :
        /\ IdHits(case, reviews[i]) = {}
        /\ TextHits(case, reviews[i]) = {}
        /\ i \in DOMAIN case.retained
        /\ case.dataLines > Len(case.retained)
        /\ i > 1
        /\ reviews[i].trueLabel # case.retained[i].trueLabel
        /\ AfterValidation(case)[i].trueLabel = case.retained[i].trueLabel

\* a record is matched by none of the three strategies
Unmatched(case, i) ==
    /\ IdHits(case, reviews[i]) = {}
    /\ TextHits(case, reviews[i]) = {}
    /\ i \notin DOMAIN case.retained

\* C16: applyValidationFile leaves a record matched by none of the three strategies
\* entirely unchanged, and changes no field of any record other than trueLabel:
\* id, text, predictedLabel, correctedLabel, status and the order of the records
\* are preserved.
C16_ValidationFrame ==
    \A case \in ValidationCases :
        /\ DOMAIN AfterValidation(case) = DOMAIN reviews
        /\ \A i \in DOMAIN reviews :
              /\ AfterValidation(case)[i]
                   = [reviews[i] EXCEPT !.trueLabel = AfterValidation(case)[i].trueLabel]
              /\ Unmatched(case, i) => AfterValidation(case)[i] = reviews[i]

\* a corrected record gets a new trueLabel while the record after it, which has a
\* trueLabel and matches no row, stays as it is
C16_Witness ==
    \E case \in ValidationCases : \E i, j \in DOMAIN reviews :
        /\ i < j
        /\ reviews[i].correctedLabel # Absent
        /\ reviews[i].status = "corrected"
        /\ AfterValidation(case)[i].trueLabel # reviews[i].trueLabel
        /\ Unmatched(case, j)
        /\ reviews[j].trueLabel # Absent
        /\ AfterValidation(case)[j] = reviews[j]

CorrectionEffect(before, after, id, label) ==
    /\ DOMAIN after = DOMAIN before
    /\ \A i \in DOMAIN before :
          IF before[i].id # id THEN after[i] = before[i]
          ELSE /\ after[i].correctedLabel = label
               /\ after[i].status =
                     IF label # Absent THEN "corrected"
                     ELSE IF before[i].predictedLabel # Absent THEN "predicted" ELSE "raw"
               /\ after[i].id = before[i].id
               /\ after[i].text = before[i].text
               /\ after[i].trueLabel = before[i].trueLabel
               /\ after[i].predictedLabel = before[i].predictedLabel

\* the store with the prediction of one record replaced
WithPrediction(i, p) ==
    [reviews EXCEPT ![i] = [reviews[i] EXCEPT !.predictedLabel = p]]

\* C18: updateCorrectedLabel(id, label) with a label sets the record's
\* correctedLabel to it and its status to corrected; with no label it clears
\* correctedLabel and sets the status to predicted when the record has a
\* predictedLabel, else to raw; the other records and the record's trueLabel and
\* predictedLabel stay as they are.  This holds of every step of the operation, and
\* of the operation applied with any label to the store as it is and to the store
\* with the prediction of one record taken away.
C18_CorrectionStep ==
    [][/\ \A id \in 1..MaxRows, label \in CorrectionInputs :
             updateCorrectedLabel(id, label)
                 => CorrectionEffect(reviews, reviews', id, label)
       /\ \A id \in 1..MaxRows, label \in OptLabel :
             /\ CorrectionEffect(reviews, CorrectedReviews(reviews, id, label), id, label)
             /\ \A i \in DOMAIN reviews :
                   CorrectionEffect(WithPrediction(i, Absent),
                                    CorrectedReviews(WithPrediction(i, Absent), id, label),
                                    id, label)]_vars

\* one record is corrected to a label other than its prediction and keeps its
\* trueLabel, next to a record that is not corrected
C18_Witness ==
    \E i, j \in DOMAIN reviews :
        /\ reviews[i].status = "corrected"
        /\ reviews[i].correctedLabel # Absent
        /\ reviews[i].correctedLabel # reviews[i].predictedLabel
        /\ reviews[i].trueLabel # Absent
        /\ reviews[j].status = "predicted"
        /\ reviews[j].correctedLabel = Absent

\* the data lines of an input file the parser retains (those with a text), each with
\* its ID cell, in file order
RetainedInputLines(file) ==
    LET lines   == FileLines(file)
        headers == HeadersOf(lines)
        idxText == indexOf(LowerOf(headers), W_text)
        Row(i)  == [id   |-> StrTrim(IdCellOf(headers, lines[i])),
                    text |-> StrTrim(CellOf(headers, lines[i], idxText))]
        Kept(i) == Row(i).text # <<>>
        kept    == SelectSeq([i \in 1..(Len(lines) - 1) |-> i + 1], Kept)
    IN  IF Len(lines) = 0 \/ idxText = -1 THEN <<>>
        ELSE [k \in DOMAIN kept |-> Row(kept[k])]

\* the input files with the rows the parser returns for them and with their retained
\* lines
InputCases ==
    {[name |-> file.name, rows |-> parseInputCsv(file.content),
      retained |-> RetainedInputLines(file.content),
      lines |-> FileLines(file.content),
      hasText |-> /\ Len(FileLines(file.content)) > 0
                  /\ indexOf(LowerOf(HeadersOf(FileLines(file.content))), W_text) # -1] :
        file \in InputCsvFiles}

\* the identifier the claim gives the k-th retained row of a file
ClaimedRowId(case, k) ==
    IF case.retained[k].id # <<>> THEN case.retained[k].id ELSE ToStr(k)

\* the records of an analysis of the loaded rows in which the backend answers nothing
AnalyzedNow == analyzeRows(rawRows, [id \in {rawRows[i].id : i \in DOMAIN rawRows} |-> Absent])

\* C19: when the loaded input file has an ID/id column and a row has a value in it,
\* the parsed row has that value as its identifier and the analysed record keeps it;
\* the identifiers 1, 2, 3, ... are generated only for rows without a value.
C19_InputIdColumnKept ==
    \A case \in InputCases :
        (rawDataset.fileName = case.name)
            => /\ Len(rawRows) = Len(case.retained)
               /\ \A k \in DOMAIN rawRows :
                     /\ ToStr(rawRows[k].id) = ClaimedRowId(case, k)
                     /\ ToStr(AnalyzedNow[k].id) = ClaimedRowId(case, k)

\* the input files that are empty or have no text column
RejectedCases == {case \in InputCases : Len(case.lines) = 0 \/ ~case.hasText}

\* C20: loading an input file that is empty or has no text column yields no rows and
\* writes nothing: rawRows, rawDataset, reviews, job and filters are after the load
\* what they were before it, in every step of loadCsvFile with such a file and for
\* the load applied to any reachable store; only the loading flag is set.
C20_RejectedLoadWritesNothing ==
    [][\A case \in RejectedCases :
          /\ case.rows = <<>>
          /\ StoreAfterLoad(Store, case.name, case.rows) = Store
          /\ loadCsvFile(case.name, case.rows)
                => /\ UNCHANGED <<rawRows, rawDataset, reviews, job, filters>>
                   /\ UNCHANGED <<labelMapping, analysis>>
                   /\ loading' = FALSE]_vars

\* a store with loaded rows, analysed and corrected records, a finished job and a
\* filter set meets an empty file and a file without a text column, and stays
C20_Witness ==
    /\ Len(rawRows) > 0
    /\ rawDataset # NoDataset
    /\ \E i \in DOMAIN reviews : reviews[i].status = "corrected"
    /\ job.status = "finished"
    /\ filters # defaultFilters
    /\ \E case \in RejectedCases :
          Len(case.lines) = 0 /\ StoreAfterLoad(Store, case.name, case.rows) = Store
    /\ \E case \in RejectedCases :
          /\ Len(case.lines) > 1 /\ ~case.hasText
          /\ StoreAfterLoad(Store, case.name, case.rows) = Store

\* the input files the parser returns rows for
AcceptedCases == {case \in InputCases : case.rows # <<>>}

\* C21: a successful load of an input file replaces rawRows by the rows of the file
\* and clears the record store: right after it reviews is empty, job is null and
\* the filters are the defaults, so no record of the previous file remains.  This
\* holds of every loadCsvFile step with such a file and of the load applied to any
\* reachable store.
C21_LoadReplacesStore ==
    [][\A case \in AcceptedCases :
          /\ StoreAfterLoad(Store, case.name, case.rows).rawRows = case.rows
          /\ StoreAfterLoad(Store, case.name, case.rows).reviews = <<>>
          /\ StoreAfterLoad(Store, case.name, case.rows).job = NoJob
          /\ StoreAfterLoad(Store, case.name, case.rows).filters = defaultFilters
          /\ loadCsvFile(case.name, case.rows)
                => /\ rawRows' = case.rows
                   /\ rawDataset'.fileName = case.name
                   /\ reviews' = <<>>
                   /\ job' = NoJob
                   /\ filters' = defaultFilters]_vars

\* a store with corrected and validated records, a finished job and a filter set is
\* cleared by the load of a file with other rows
C21_Witness ==
    /\ \E i \in DOMAIN reviews :
          /\ reviews[i].status = "corrected"
          /\ reviews[i].trueLabel # Absent
    /\ job.status = "finished"
    /\ filters # defaultFilters
    /\ \E case \in AcceptedCases :
          /\ case.rows # rawRows
          /\ StoreAfterLoad(Store, case.name, case.rows).reviews = <<>>
          /\ StoreAfterLoad(Store, case.name, case.rows).rawRows = case.rows

\* C22: the label mapping held in settings, and the mapping normalized from it, is a
\* bijection between the codes and the meanings in every state, from the initial
\* state built from any persisted configuration onwards.
C22_PersistedMappingIsBijection ==
    IsBijection(labelMapping) /\ IsBijection(activeMapping)

\* C23: conceptLabelToDatasetCode is total: under a mapping in which no code has the
\* meaning of the class it returns the class's own index, and when several codes
\* have it, the lowest of them (under a bijection, the one code that has it).
C23_ConceptToCodeTotal ==
    \A class \in CODES :
        LET hits == CodesOfClass(class, activeMapping)
            code == conceptLabelToDatasetCode(class, activeMapping)
        IN  /\ code \in CODES
            /\ hits = {} => code = class
            /\ hits # {} => (code \in hits /\ \A c \in hits : code <= c)

\* a mapping in which one class has no code and another has several, the lowest of
\* which is not the class's own index
C23_Witness ==
    /\ \E class \in CODES :
          /\ CodesOfClass(class, activeMapping) = {}
          /\ conceptLabelToDatasetCode(class, activeMapping) = class
    /\ \E class \in CODES :
          /\ Cardinality(CodesOfClass(class, activeMapping)) > 1
          /\ conceptLabelToDatasetCode(class, activeMapping) # class
          /\ conceptLabelToDatasetCode(class, activeMapping) \in CodesOfClass(class, activeMapping)

\* C24: datasetCodeToConceptLabel is unresolved for every code outside {0,1,2}, an
\* absent one included, under any mapping; modelCodeToConceptLabel returns 0, 1, 2
\* unchanged and is unresolved for anything else, whatever the mapping is.
C24_ConversionsOutsideCodes ==
    /\ \A code \in LabelInputs \ CODES :
          /\ datasetCodeToConceptLabel(code, activeMapping) = Absent
          /\ datasetCodeToConceptLabel(code, labelMapping) = Absent
    /\ \A code \in LabelInputs :
          modelCodeToConceptLabel(code) = IF code \in CODES THEN code ELSE Absent

\* a mapping under which the dataset conversion of some code differs from the model
\* conversion of the same code, with both unresolved outside 0..2
C24_Witness ==
    /\ \E code \in CODES :
          /\ datasetCodeToConceptLabel(code, activeMapping) # code
          /\ modelCodeToConceptLabel(code) = code
    /\ datasetCodeToConceptLabel(BadCode, activeMapping) = Absent
    /\ datasetCodeToConceptLabel(Absent, activeMapping) = Absent
    /\ modelCodeToConceptLabel(BadCode) = Absent
    /\ modelCodeToConceptLabel(Absent) = Absent

\* the inputs of normalizeLabelMapping: each key holds a meaning or is missing
\* (an absent input is the one with every key missing)
PartialMappings == [CODES -> MEANING_ORDER \cup {NoMeaning}]

\* C25: normalizeLabelMapping returns a mapping with exactly the keys 0, 1, 2 in
\* which a key of the input keeps its value and a missing key gets the default of
\* that key; it is idempotent and leaves a bijective full mapping unchanged.
C25_NormalizeFillsDefaults ==
    /\ \A partial \in PartialMappings :
          LET normalized == normalizeLabelMapping(partial)
          IN  /\ DOMAIN normalized = CODES
              /\ \A c \in CODES :
                    normalized[c] = IF partial[c] # NoMeaning THEN partial[c]
                                    ELSE DEFAULT_LABEL_MAPPING[c]
              /\ normalizeLabelMapping(normalized) = normalized
              /\ IsBijection(partial) => normalized = partial
    /\ DOMAIN activeMapping = CODES
    /\ activeMapping = labelMapping
    /\ normalizeLabelMapping(activeMapping) = activeMapping

\* the settings hold a full mapping other than the default, which normalisation
\* leaves alone, while an input with a missing key is filled to a different mapping
C25_Witness ==
    /\ labelMapping # DEFAULT_LABEL_MAPPING
    /\ IsBijection(labelMapping)
    /\ normalizeLabelMapping(labelMapping) = labelMapping
    /\ \E c \in CODES :
          LET partial == [labelMapping EXCEPT ![c] = NoMeaning]
          IN  /\ normalizeLabelMapping(partial)[c] = DEFAULT_LABEL_MAPPING[c]
              /\ normalizeLabelMapping(partial) # labelMapping
              /\ \A d \in CODES \ {c} : normalizeLabelMapping(partial)[d] = labelMapping[d]

\* the status the labels of a record call for
StatusByLabels(row) ==
    IF row.correctedLabel # Absent THEN "corrected"
    ELSE IF row.predictedLabel # Absent THEN "predicted"
    ELSE "raw"

\* C26: in every reachable state of the record store the status of each record is
\* determined by its labels: corrected iff correctedLabel is present, otherwise
\* predicted iff predictedLabel is present, otherwise raw.
C26_StatusFollowsLabels ==
    \A i \in DOMAIN reviews : reviews[i].status = StatusByLabels(reviews[i])

\* a store, after a validation file was applied, with a corrected record next to a
\* predicted one
C26_Witness ==
    /\ \E i \in DOMAIN reviews :
          /\ reviews[i].correctedLabel # Absent
          /\ reviews[i].status = "corrected"
          /\ reviews[i].trueLabel # Absent
    /\ \E i \in DOMAIN reviews :
          /\ reviews[i].correctedLabel = Absent
          /\ reviews[i].predictedLabel # Absent
          /\ reviews[i].status = "predicted"

\* C27: under any interleaving of loadCsvFile with a runAnalysis in flight, a
\* non-empty record store corresponds to the currently loaded rows: the same
\* length and, position by position, the same text.
C27_ReviewsMatchLoadedRows ==
    reviews # <<>> =>
        /\ Len(reviews) = Len(rawRows)
        /\ \A i \in DOMAIN reviews : reviews[i].text = rawRows[i].text

\* C28: the loading flag is true in every state in which an asynchronous operation
\* has started and not yet finished, whatever other operation finished meanwhile
\* (loadCsvFile and applyValidationFile are single steps here, so the operation
\* that can be seen in flight is runAnalysis).
C28_LoadingWhileInFlight ==
    analysis # NoAnalysis => loading = TRUE

\* no operation is in flight
Quiescent == analysis = NoAnalysis

\* a run that set the job to processing is in flight
RunInFlight == analysis # NoAnalysis /\ job.status = "processing"

\* the step is the end of a run
RunEnds == analysis # NoAnalysis /\ analysis' = NoAnalysis

FreshlyAnalyzed(records, rows, predictionsById) ==
    /\ Len(records) = Len(rows)
    /\ \A i \in DOMAIN records :
          LET predicted == predictionsById[getRowId(rows[i], i - 1)]
          IN  /\ records[i].predictedLabel \in CODES
              /\ records[i].predictedLabel = IF predicted = Absent THEN 1 ELSE predicted
              /\ records[i].correctedLabel = Absent
              /\ records[i].status = "predicted"
              /\ records[i].trueLabel = rows[i].label
              /\ records[i].text = rows[i].text
    /\ \A i, j \in DOMAIN records : i # j => records[i].id # records[j].id

\* C30: a successfully completed analysis run replaces the whole record store:
\* every resulting record has a predictedLabel in {0,1,2} (neutral 1 when the
\* backend returned no label for its id), no correctedLabel, the status predicted,
\* an id of its own, and as trueLabel the label of the input row at the same
\* position (none if that row had none); the corrections and validation labels
\* of the store before are gone.
C30_RunReplacesStore ==
    [][\A predictionsById \in BackendResponses(analysis) :
          runAnalysisFinish(predictionsById) =>
              FreshlyAnalyzed(reviews', analysis, predictionsById)]_vars

\* a run is in flight on rows of which one has a label and one has none, while the
\* store holds a corrected record and a validation label the input row does not have;
\* completing the run leaves none of them
C30_Witness ==
    /\ analysis # NoAnalysis
    /\ Len(reviews) = Len(analysis)
    /\ \E i \in DOMAIN analysis : analysis[i].label # Absent
    /\ \E i \in DOMAIN analysis : analysis[i].label = Absent
    /\ \E i \in DOMAIN reviews : reviews[i].correctedLabel # Absent
    /\ \E i \in DOMAIN reviews : reviews[i].trueLabel # analysis[i].label
    /\ \E predictionsById \in BackendResponses(analysis) :
          /\ \E id \in DOMAIN predictionsById : predictionsById[id] = Absent
          /\ FreshlyAnalyzed(analyzedWithTrue(analysis, predictionsById), analysis,
                             predictionsById)

====
